---- MODULE Spec2Model ----
(***************************************************************************)
(* Model of FontFace (src/font_face.rs): a wrapper around a reference-     *)
(* counted native IDWriteFontFace.  Every public method is one action.     *)
(* The native layer (IDWriteFontFace, the DirectWrite factory) is the      *)
(* environment: the status and the out-parameters of each native call are  *)
(* drawn nondeterministically from small sets.                             *)
(*                                                                         *)
(* A method that panics (assert!(hr == 0)) ends with outcome "fault" and   *)
(* no value.  `last` records the most recent method call: its arguments,   *)
(* what the native layer answered, the native calls made in order, and     *)
(* the outcome.                                                            *)
(***************************************************************************)
EXTENDS Integers, Sequences, FiniteSets, TLC

VARIABLES handles,      \* the live FontFace objects, in order of construction
          unownedRefs,  \* per font file: references handed out by GetFiles that were neither
                        \* released nor given to a FontFile (negative: released too often)
          ctxAcquired,  \* successful TryGetFontTable calls so far
          ctxReleased,  \* ReleaseFontTable calls so far
          last          \* the most recent method call

vars == <<handles, unownedRefs, ctxAcquired, ctxReleased, last>>

----------------------------------------------------------------------------
(* Bounds *)

MaxHandles == 2       \* FontFace objects constructed in one behaviour
MaxFiles == 2         \* files a native face can report
MaxLen == 2           \* length of a glyph query batch
MaxTableCalls == 2    \* successful TryGetFontTable calls in one behaviour
MaxTableSize == 2     \* bytes in a font table

----------------------------------------------------------------------------
(* Program constants and the values the environment draws from *)

S_OK == 0
NullPtr == 0
FALSE_BOOL == 0
DWRITE_RENDERING_MODE_DEFAULT == 0
DWRITE_RENDERING_MODE_NATURAL_SYMMETRIC == 5

\* HRESULTs (as i32) the native layer fails with
E_FAIL == 0 - 2147467259
E_INVALIDARG == 0 - 2147024809
E_NOT_SUFFICIENT_BUFFER == 0 - 2147024774

Statuses == {S_OK, E_FAIL}
\* DWRITE_RENDERING_MODE: DEFAULT, ALIASED, GDI_CLASSIC, GDI_NATURAL, NATURAL,
\* NATURAL_SYMMETRIC, OUTLINE
RenderingModes == 0..6
Simulations == {0, 1, 2}
Files == 1..MaxFiles
FileCounts == 0..MaxFiles

NoValue == <<"no value">>
Fault == "fault"
Ok == "ok"

----------------------------------------------------------------------------
(* Sequence helpers *)

RECURSIVE SeqsUpTo(_, _)
SeqsUpTo(S, n) ==
    IF n = 0 THEN {<<>>}
    ELSE LET shorter == SeqsUpTo(S, n - 1)
         IN  shorter \cup {Append(s, x) : s \in {t \in shorter : Len(t) = n - 1}, x \in S}

\* vec![v; n]
VecOf(v, n) == [i \in 1..n |-> v]

\* The native layer writes vals[1..count] into the first `count` slots of the
\* caller's buffer.
NativeFill(buf, count, vals) ==
    [i \in 1..Len(buf) |-> IF i <= count THEN vals[i] ELSE buf[i]]

Count(s, x) == Cardinality({i \in 1..Len(s) : s[i] = x})

----------------------------------------------------------------------------
(* The native face *)

\* A native face is identified by what the factory built it from.
Face(ftype, findex, sims) ==
    [null |-> FALSE, ftype |-> ftype, findex |-> findex, sims |-> sims]

\* ComPtr::new(): the null reference
NullFace == [null |-> TRUE, ftype |-> 0, findex |-> 0, sims |-> 0]

\* The face the first handle is constructed from: a TrueType face (type 1),
\* index 0, no simulations.
InitialFaces == {Face(1, 0, 0)}

\* mem::zeroed::<FontMetrics>()
ZeroedMetrics == [designUnitsPerEm |-> 0, ascent |-> 0]

\* IDWriteFontFace::GetMetrics: fills the caller's struct; cannot fail.
NativeGetMetrics(face, out) ==
    [out EXCEPT !.designUnitsPerEm = 1000 + face.findex,
                !.ascent = 800 + 10 * face.sims]

NativeGetType(face) == face.ftype
NativeGetIndex(face) == face.findex

\* Bug: the snapshot is left zeroed instead of queried from the native face.
take_unqueried(native) == [native |-> native, metrics |-> ZeroedMetrics]

\* FontFace::take
take(native) ==
    LET metrics == NativeGetMetrics(native, ZeroedMetrics)
    IN  [native |-> native, metrics |-> metrics]

\* FontFace::metrics
metrics(self) == self.metrics

\* FontFace::get_metrics
get_metrics(self) == NativeGetMetrics(self.native, ZeroedMetrics)

\* One method call: its receiver and arguments, the native layer's answers
\* (env), values the method computed on the way (detail), the native calls it
\* made in order, and how it ended.
Call(op, h, args, env, detail, calls, outcome, value) ==
    [op |-> op, self |-> h, args |-> args, env |-> env, detail |-> detail,
     calls |-> calls, outcome |-> outcome, value |-> value]

----------------------------------------------------------------------------
(* File enumeration *)

Ev(name, arg) == <<name, arg>>

\* IDWriteFontFace::GetFiles(&mut number_of_files, null): reports the number
\* of files the face has at the time of the call.
NativeGetFilesCount(actual, hr, number_of_files) ==
    IF hr # S_OK
    THEN [hr |-> hr, number_of_files |-> number_of_files]
    ELSE [hr |-> S_OK, number_of_files |-> actual]

\* IDWriteFontFace::GetFiles(&mut number_of_files, buf): writes one AddRef'ed
\* reference per file into buf and reports how many it wrote; fails without
\* writing when the face has more files than number_of_files.
NativeGetFilesFill(actual, hr, number_of_files, buf) ==
    IF hr # S_OK
    THEN [hr |-> hr, number_of_files |-> number_of_files, buf |-> buf, addrefs |-> <<>>]
    ELSE IF actual > number_of_files
    THEN [hr |-> E_NOT_SUFFICIENT_BUFFER, number_of_files |-> actual, buf |-> buf,
          addrefs |-> <<>>]
    ELSE [hr |-> S_OK, number_of_files |-> actual,
          buf |-> NativeFill(buf, actual, [i \in 1..actual |-> i]),
          addrefs |-> [i \in 1..actual |-> Ev("AddRef", i)]]

\* FontFace::get_raw_files.  e.hr1/e.n1 and e.hr2/e.n2 are the native layer's
\* status and file count at the first and at the second GetFiles call.
get_raw_files(self, e) ==
    LET c1 == NativeGetFilesCount(e.n1, e.hr1, 0)
        file_ptrs == VecOf(NullPtr, c1.number_of_files)
        c2 == NativeGetFilesFill(e.n2, e.hr2, c1.number_of_files, file_ptrs)
    IN  IF c1.hr # S_OK
        THEN [fault |-> TRUE, file_ptrs |-> <<>>, number_of_files |-> c1.number_of_files,
              hrs |-> <<c1.hr>>, calls |-> <<Ev("GetFiles", 0)>>]
        ELSE IF c2.hr # S_OK
        THEN [fault |-> TRUE, file_ptrs |-> <<>>, number_of_files |-> c2.number_of_files,
              hrs |-> <<c1.hr, c2.hr>>,
              calls |-> <<Ev("GetFiles", 0), Ev("GetFiles", 1)>> \o c2.addrefs]
        ELSE [fault |-> FALSE, file_ptrs |-> c2.buf, number_of_files |-> c2.number_of_files,
              hrs |-> <<c1.hr, c2.hr>>,
              calls |-> <<Ev("GetFiles", 0), Ev("GetFiles", 1)>> \o c2.addrefs]

\* ComPtr::already_addrefed(p): adopts the reference without AddRef.
already_addrefed(p) == [ptr |-> p]

\* Drop of a ComPtr: Release, unless the pointer is null.
ComPtrDrop(c) == IF c.ptr = NullPtr THEN <<>> ELSE <<Ev("Release", c.ptr)>>

\* FontFile::take(ComPtr): the wrapper owns the ComPtr.
FontFile_take(c) == [native |-> c]

\* Bug: the last reference is not wrapped.
WrapAllButLast(file_ptrs) ==
    [i \in 1..(Len(file_ptrs) - 1) |-> FontFile_take(already_addrefed(file_ptrs[i]))]

\* file_ptrs.iter().map(|p| FontFile::take(ComPtr::already_addrefed(*p))).collect()
WrapFiles(file_ptrs) ==
    [i \in 1..Len(file_ptrs) |-> FontFile_take(already_addrefed(file_ptrs[i]))]

\* FontFace::get_files
get_files(self, e) ==
    LET raw == get_raw_files(self, e)
        files == WrapFiles(raw.file_ptrs)
    IN  [fault |-> raw.fault, file_ptrs |-> raw.file_ptrs,
         number_of_files |-> raw.number_of_files, hrs |-> raw.hrs, calls |-> raw.calls,
         files |-> IF raw.fault THEN <<>> ELSE files,
         value |-> IF raw.fault THEN NoValue ELSE files]

\* Bug: the release loop stops after the first reference.
ReleaseFirstOnly(file_ptrs) ==
    IF file_ptrs = <<>> THEN <<>>
    ELSE ComPtrDrop(already_addrefed(Head(file_ptrs)))

\* for p in file_ptrs { let _ = ComPtr::already_addrefed(p); }
RECURSIVE ReleaseFiles(_)
ReleaseFiles(file_ptrs) ==
    IF file_ptrs = <<>> THEN <<>>
    ELSE ComPtrDrop(already_addrefed(Head(file_ptrs))) \o ReleaseFiles(Tail(file_ptrs))

\* The references left without an owner by a call: those the native layer
\* AddRef'ed, less those released and those now owned by a returned FontFile.
RefsAfter(refs, calls, files) ==
    [f \in Files |-> refs[f] + Count(calls, Ev("AddRef", f)) - Count(calls, Ev("Release", f))
                              - Count(files, FontFile_take(already_addrefed(f)))]

\* The native layer's answers to the two GetFiles calls: the status and the
\* number of files the face has at each call (the code does not assume the two
\* agree).  A call that is not made answers nothing (its fields are left at
\* S_OK and 0).
FilesEnv ==
    {e \in [hr1 : Statuses, n1 : FileCounts, hr2 : Statuses, n2 : FileCounts] :
        /\ e.hr1 # S_OK => e.n1 = 0 /\ e.hr2 = S_OK
        /\ (e.hr1 # S_OK \/ e.hr2 # S_OK) => e.n2 = 0}

----------------------------------------------------------------------------
(* Derived faces *)

\* IDWriteFactory::CreateFontFace: on success stores a new face built from
\* the given type, files, index and simulations; rejects a null file.
NativeCreateFontFace(face_type, number_of_files, files, face_index, simulations, hr) ==
    IF hr # S_OK
    THEN [hr |-> hr, face |-> NullFace]
    ELSE IF \E i \in 1..number_of_files : files[i] = NullPtr
    THEN [hr |-> E_INVALIDARG, face |-> NullFace]
    ELSE [hr |-> S_OK, face |-> Face(face_type, face_index, simulations)]

\* Bug: the factory status is not checked, so a failed CreateFontFace is wrapped.
create_font_face_with_simulations_unchecked(self, simulations, e) ==
    LET raw == get_raw_files(self, e)
        file_ptrs == raw.file_ptrs
        face_type == NativeGetType(self.native)
        face_index == NativeGetIndex(self.native)
        created == NativeCreateFontFace(face_type, Len(file_ptrs), file_ptrs,
                                        face_index, simulations, e.hrCreate)
        factoryArgs == [face_type |-> face_type, number_of_files |-> Len(file_ptrs),
                        files |-> file_ptrs, face_index |-> face_index,
                        simulations |-> simulations]
        calls == raw.calls
                 \o <<Ev("GetType", 0), Ev("GetIndex", 0), Ev("CreateFontFace", simulations)>>
                 \o ReleaseFiles(file_ptrs)
    IN  IF raw.fault
        THEN [fault |-> TRUE, enumerated |-> FALSE, hrs |-> raw.hrs, factoryArgs |-> <<>>,
              file_ptrs |-> <<>>, calls |-> raw.calls, value |-> NoValue]
        ELSE IF FALSE
        THEN [fault |-> TRUE, enumerated |-> TRUE, hrs |-> Append(raw.hrs, created.hr),
              factoryArgs |-> factoryArgs, file_ptrs |-> file_ptrs,
              calls |-> calls, value |-> NoValue]
        ELSE [fault |-> FALSE, enumerated |-> TRUE, hrs |-> Append(raw.hrs, created.hr),
              factoryArgs |-> factoryArgs, file_ptrs |-> file_ptrs,
              calls |-> Append(calls, Ev("GetMetrics", 0)),
              value |-> take(created.face)]

\* Bug: the derived handle inherits the source handle's snapshot.
create_font_face_with_simulations_copied_metrics(self, simulations, e) ==
    LET raw == get_raw_files(self, e)
        file_ptrs == raw.file_ptrs
        face_type == NativeGetType(self.native)
        face_index == NativeGetIndex(self.native)
        created == NativeCreateFontFace(face_type, Len(file_ptrs), file_ptrs,
                                        face_index, simulations, e.hrCreate)
        factoryArgs == [face_type |-> face_type, number_of_files |-> Len(file_ptrs),
                        files |-> file_ptrs, face_index |-> face_index,
                        simulations |-> simulations]
        calls == raw.calls
                 \o <<Ev("GetType", 0), Ev("GetIndex", 0), Ev("CreateFontFace", simulations)>>
                 \o ReleaseFiles(file_ptrs)
    IN  IF raw.fault
        THEN [fault |-> TRUE, enumerated |-> FALSE, hrs |-> raw.hrs, factoryArgs |-> <<>>,
              file_ptrs |-> <<>>, calls |-> raw.calls, value |-> NoValue]
        ELSE IF created.hr # S_OK
        THEN [fault |-> TRUE, enumerated |-> TRUE, hrs |-> Append(raw.hrs, created.hr),
              factoryArgs |-> factoryArgs, file_ptrs |-> file_ptrs,
              calls |-> calls, value |-> NoValue]
        ELSE [fault |-> FALSE, enumerated |-> TRUE, hrs |-> Append(raw.hrs, created.hr),
              factoryArgs |-> factoryArgs, file_ptrs |-> file_ptrs,
              calls |-> Append(calls, Ev("GetMetrics", 0)),
              value |-> [native |-> created.face, metrics |-> self.metrics]]

\* Bug: the enumerated files are released before the factory call.
create_font_face_with_simulations_early_release(self, simulations, e) ==
    LET raw == get_raw_files(self, e)
        file_ptrs == raw.file_ptrs
        face_type == NativeGetType(self.native)
        face_index == NativeGetIndex(self.native)
        created == NativeCreateFontFace(face_type, Len(file_ptrs), file_ptrs,
                                        face_index, simulations, e.hrCreate)
        factoryArgs == [face_type |-> face_type, number_of_files |-> Len(file_ptrs),
                        files |-> file_ptrs, face_index |-> face_index,
                        simulations |-> simulations]
        calls == raw.calls
                 \o <<Ev("GetType", 0), Ev("GetIndex", 0)>>
                 \o ReleaseFiles(file_ptrs)
                 \o <<Ev("CreateFontFace", simulations)>>
    IN  IF raw.fault
        THEN [fault |-> TRUE, enumerated |-> FALSE, hrs |-> raw.hrs, factoryArgs |-> <<>>,
              file_ptrs |-> <<>>, calls |-> raw.calls, value |-> NoValue]
        ELSE IF created.hr # S_OK
        THEN [fault |-> TRUE, enumerated |-> TRUE, hrs |-> Append(raw.hrs, created.hr),
              factoryArgs |-> factoryArgs, file_ptrs |-> file_ptrs,
              calls |-> calls, value |-> NoValue]
        ELSE [fault |-> FALSE, enumerated |-> TRUE, hrs |-> Append(raw.hrs, created.hr),
              factoryArgs |-> factoryArgs, file_ptrs |-> file_ptrs,
              calls |-> Append(calls, Ev("GetMetrics", 0)),
              value |-> take(created.face)]

\* FontFace::create_font_face_with_simulations.  e extends the enumeration
\* environment with hrCreate, the factory's status.
create_font_face_with_simulations(self, simulations, e) ==
    LET raw == get_raw_files(self, e)
        file_ptrs == raw.file_ptrs
        face_type == NativeGetType(self.native)
        face_index == NativeGetIndex(self.native)
        created == NativeCreateFontFace(face_type, Len(file_ptrs), file_ptrs,
                                        face_index, simulations, e.hrCreate)
        factoryArgs == [face_type |-> face_type, number_of_files |-> Len(file_ptrs),
                        files |-> file_ptrs, face_index |-> face_index,
                        simulations |-> simulations]
        calls == raw.calls
                 \o <<Ev("GetType", 0), Ev("GetIndex", 0), Ev("CreateFontFace", simulations)>>
                 \o ReleaseFiles(file_ptrs)
    IN  IF raw.fault
        THEN [fault |-> TRUE, enumerated |-> FALSE, hrs |-> raw.hrs, factoryArgs |-> <<>>,
              file_ptrs |-> <<>>, calls |-> raw.calls, value |-> NoValue]
        ELSE IF created.hr # S_OK
        THEN [fault |-> TRUE, enumerated |-> TRUE, hrs |-> Append(raw.hrs, created.hr),
              factoryArgs |-> factoryArgs, file_ptrs |-> file_ptrs,
              calls |-> calls, value |-> NoValue]
        ELSE [fault |-> FALSE, enumerated |-> TRUE, hrs |-> Append(raw.hrs, created.hr),
              factoryArgs |-> factoryArgs, file_ptrs |-> file_ptrs,
              calls |-> Append(calls, Ev("GetMetrics", 0)),
              value |-> take(created.face)]

\* ... and to CreateFontFace, which is called only when enumeration succeeds.
CreateEnv ==
    {e \in [hr1 : Statuses, n1 : FileCounts, hr2 : Statuses, n2 : FileCounts,
            hrCreate : Statuses] :
        /\ [hr1 |-> e.hr1, n1 |-> e.n1, hr2 |-> e.hr2, n2 |-> e.n2] \in FilesEnv
        /\ (e.hr1 # S_OK \/ e.hr2 # S_OK \/ e.n2 > e.n1) => e.hrCreate = S_OK}

----------------------------------------------------------------------------
(* Glyph queries *)

CodePoints == {65, 66, 1114111}
GlyphIndices == {0, 1}
EmSizes == {1, 2}
\* (em_size, pixels_per_dip, transform, use_gdi_natural) samples; a null
\* transform is the identity
GdiParams == {<<1, 1, NullPtr, FALSE>>, <<2, 2, 1, TRUE>>}

\* `b as BOOL`
AsBOOL(b) == IF b THEN 1 ELSE 0

\* The face's character map; 0 is the missing glyph.
NativeGlyphIndexOf(cp) == IF cp = 65 THEN 36 ELSE IF cp = 66 THEN 37 ELSE 0

\* mem::zeroed::<DWRITE_GLYPH_METRICS>()
ZeroedGlyphMetrics == [advanceWidth |-> 0, verticalOriginY |-> 0]

NativeDesignGlyphMetricsOf(g, is_sideways) ==
    [advanceWidth |-> 500 + 10 * g, verticalOriginY |-> 700 * is_sideways + g]

NativeGdiGlyphMetricsOf(em_size, pixels_per_dip, transform, use_gdi_natural, g, is_sideways) ==
    [advanceWidth |-> (5 + g) * em_size * pixels_per_dip + use_gdi_natural + 2 * transform,
     verticalOriginY |-> 7 * is_sideways * em_size + g]

\* IDWriteFontFace::GetGlyphIndices(code_points, count, out)
NativeGetGlyphIndices(code_points, count, out, hr) ==
    IF hr # S_OK THEN out
    ELSE NativeFill(out, count, [i \in 1..count |-> NativeGlyphIndexOf(code_points[i])])

\* IDWriteFontFace::GetDesignGlyphMetrics(glyph_indices, count, out, is_sideways)
NativeGetDesignGlyphMetrics(glyph_indices, count, out, is_sideways, hr) ==
    IF hr # S_OK THEN out
    ELSE NativeFill(out, count,
                    [i \in 1..count |->
                        NativeDesignGlyphMetricsOf(glyph_indices[i], is_sideways)])

\* IDWriteFontFace::GetGdiCompatibleGlyphMetrics(...)
NativeGetGdiCompatibleGlyphMetrics(em_size, pixels_per_dip, transform, use_gdi_natural, glyph_indices, count, out, is_sideways, hr) ==
    IF hr # S_OK THEN out
    ELSE NativeFill(out, count,
                    [i \in 1..count |->
                        NativeGdiGlyphMetricsOf(em_size, pixels_per_dip, transform,
                                                use_gdi_natural, glyph_indices[i],
                                                is_sideways)])

\* Bug: the buffer returned is the one allocated, not the one the native layer filled.
get_glyph_indices_unfilled(self, code_points, hr) ==
    LET glyph_indices == VecOf(0, Len(code_points))
    IN  IF hr # S_OK
        THEN [fault |-> TRUE, hrs |-> <<hr>>, value |-> NoValue]
        ELSE [fault |-> FALSE, hrs |-> <<hr>>, value |-> glyph_indices]

\* Bug: a missing glyph (index 0) in the output is treated as a failure.
get_glyph_indices_missing_faults(self, code_points, hr) ==
    LET glyph_indices == VecOf(0, Len(code_points))
        filled == NativeGetGlyphIndices(code_points, Len(code_points), glyph_indices, hr)
    IN  IF hr # S_OK \/ \E k \in 1..Len(filled) : filled[k] = 0
        THEN [fault |-> TRUE, hrs |-> <<hr>>, value |-> NoValue]
        ELSE [fault |-> FALSE, hrs |-> <<hr>>, value |-> filled]

\* FontFace::get_glyph_indices
get_glyph_indices(self, code_points, hr) ==
    LET glyph_indices == VecOf(0, Len(code_points))
        filled == NativeGetGlyphIndices(code_points, Len(code_points), glyph_indices, hr)
    IN  IF hr # S_OK
        THEN [fault |-> TRUE, hrs |-> <<hr>>, value |-> NoValue]
        ELSE [fault |-> FALSE, hrs |-> <<hr>>, value |-> filled]

\* Bug: the status of GetDesignGlyphMetrics is not checked.
get_design_glyph_metrics_unchecked(self, glyph_indices, is_sideways, hr) ==
    [fault |-> FALSE, hrs |-> <<hr>>,
     value |-> NativeGetDesignGlyphMetrics(glyph_indices, Len(glyph_indices),
                                           VecOf(ZeroedGlyphMetrics, Len(glyph_indices)),
                                           AsBOOL(is_sideways), hr)]

\* FontFace::get_design_glyph_metrics
get_design_glyph_metrics(self, glyph_indices, is_sideways, hr) ==
    LET metrics0 == VecOf(ZeroedGlyphMetrics, Len(glyph_indices))
        filled == NativeGetDesignGlyphMetrics(glyph_indices, Len(glyph_indices), metrics0,
                                              AsBOOL(is_sideways), hr)
    IN  IF hr # S_OK
        THEN [fault |-> TRUE, hrs |-> <<hr>>, value |-> NoValue]
        ELSE [fault |-> FALSE, hrs |-> <<hr>>, value |-> filled]

\* FontFace::get_gdi_compatible_glyph_metrics
get_gdi_compatible_glyph_metrics(self, em_size, pixels_per_dip, transform, use_gdi_natural, glyph_indices, is_sideways, hr) ==
    LET metrics0 == VecOf(ZeroedGlyphMetrics, Len(glyph_indices))
        filled == NativeGetGdiCompatibleGlyphMetrics(em_size, pixels_per_dip, transform,
                                                     AsBOOL(use_gdi_natural), glyph_indices,
                                                     Len(glyph_indices), metrics0,
                                                     AsBOOL(is_sideways), hr)
    IN  IF hr # S_OK
        THEN [fault |-> TRUE, hrs |-> <<hr>>, value |-> NoValue]
        ELSE [fault |-> FALSE, hrs |-> <<hr>>, value |-> filled]

\* FontFace::get_glyph_count
NativeGetGlyphCount(face) == 3 + face.findex

get_glyph_count(self) == NativeGetGlyphCount(self.native)

----------------------------------------------------------------------------
(* Font tables *)

Tags == {1, 2, 3}
Bytes == {0, 1, 255}
None == <<"None">>
Some(v) == <<"Some", v>>

\* IDWriteFontFace::TryGetFontTable: e.hr is its status, e.exists its BOOL
\* out-parameter and e.span the bytes at table_data_ptr (table_size of them).
\* A call that fails leaves the out-parameters as the caller set them.
NativeTryGetFontTable(tag, e) ==
    IF e.hr # S_OK
    THEN [hr |-> e.hr, exists |-> FALSE_BOOL, span |-> <<>>, table_size |-> 0]
    ELSE [hr |-> S_OK, exists |-> e.exists, span |-> e.span, table_size |-> Len(e.span)]

\* Bug: the copy is one byte short.
CopySpanShort(span, table_size) == [i \in 1..(table_size - 1) |-> span[i]]

\* slice::from_raw_parts(table_data_ptr, table_size).to_vec()
CopySpan(span, table_size) == [i \in 1..table_size |-> span[i]]

\* Bug: the table context is released twice on the table-present path.
get_font_table_double_release(self, opentype_table_tag, e) ==
    LET r == NativeTryGetFontTable(opentype_table_tag, e)
        table_bytes == CopySpan(r.span, r.table_size)
        try == <<Ev("TryGetFontTable", opentype_table_tag)>>
    IN  IF r.hr # S_OK
        THEN [fault |-> TRUE, hrs |-> <<r.hr>>, acquired |-> 0, released |-> 0,
              calls |-> try, value |-> NoValue]
        ELSE IF r.exists = FALSE_BOOL
        THEN [fault |-> FALSE, hrs |-> <<r.hr>>, acquired |-> 1, released |-> 0,
              calls |-> try, value |-> None]
        ELSE [fault |-> FALSE, hrs |-> <<r.hr>>, acquired |-> 1, released |-> 2,
              calls |-> try \o <<Ev("ReadSpan", r.table_size), Ev("ReleaseFontTable", 0),
                                 Ev("ReleaseFontTable", 0)>>,
              value |-> Some(table_bytes)]

\* Bug: the table context is released before the span is copied.
get_font_table_release_before_copy(self, opentype_table_tag, e) ==
    LET r == NativeTryGetFontTable(opentype_table_tag, e)
        table_bytes == CopySpan(r.span, r.table_size)
        try == <<Ev("TryGetFontTable", opentype_table_tag)>>
    IN  IF r.hr # S_OK
        THEN [fault |-> TRUE, hrs |-> <<r.hr>>, acquired |-> 0, released |-> 0,
              calls |-> try, value |-> NoValue]
        ELSE IF r.exists = FALSE_BOOL
        THEN [fault |-> FALSE, hrs |-> <<r.hr>>, acquired |-> 1, released |-> 0,
              calls |-> try, value |-> None]
        ELSE [fault |-> FALSE, hrs |-> <<r.hr>>, acquired |-> 1, released |-> 1,
              calls |-> try \o <<Ev("ReleaseFontTable", 0), Ev("ReadSpan", r.table_size)>>,
              value |-> Some(table_bytes)]

\* FontFace::get_font_table
get_font_table(self, opentype_table_tag, e) ==
    LET r == NativeTryGetFontTable(opentype_table_tag, e)
        table_bytes == CopySpan(r.span, r.table_size)
        try == <<Ev("TryGetFontTable", opentype_table_tag)>>
    IN  IF r.hr # S_OK
        THEN [fault |-> TRUE, hrs |-> <<r.hr>>, acquired |-> 0, released |-> 0,
              calls |-> try, value |-> NoValue]
        ELSE IF r.exists = FALSE_BOOL
        THEN [fault |-> FALSE, hrs |-> <<r.hr>>, acquired |-> 1, released |-> 0,
              calls |-> try, value |-> None]
        ELSE [fault |-> FALSE, hrs |-> <<r.hr>>, acquired |-> 1, released |-> 1,
              calls |-> try \o <<Ev("ReadSpan", r.table_size), Ev("ReleaseFontTable", 0)>>,
              value |-> Some(table_bytes)]

\* The native layer's answers to TryGetFontTable; a failed call reports no
\* table and an absent table has no bytes.
TableEnv ==
    {e \in [hr : Statuses, exists : {0, 1}, span : SeqsUpTo(Bytes, MaxTableSize)] :
        /\ e.hr # S_OK => e.exists = FALSE_BOOL
        /\ e.exists = FALSE_BOOL => e.span = <<>>}

----------------------------------------------------------------------------
(* Rendering mode *)

MeasuringModes == {0, 2}
\* DefaultDWriteRenderParams(): the process-wide default handle
DefaultDWriteRenderParams == 1
RenderParams == {DefaultDWriteRenderParams, 2}

\* IDWriteFontFace::GetRecommendedRenderingMode: e.hr is its status and e.mode
\* the value of the out-parameter when it returns (on failure that may be the
\* caller's initial value or anything else the native layer stored).
NativeGetRecommendedRenderingMode(em_size, pixels_per_dip, measure_mode, rendering_params, render_mode, e) ==
    [hr |-> e.hr, render_mode |-> e.mode]

\* Bug: a failing status is asserted on, as in the other methods.
get_recommended_rendering_mode_asserting(self, em_size, pixels_per_dip, measure_mode, rendering_params, e) ==
    IF e.hr # S_OK
    THEN [fault |-> TRUE, hrs |-> <<e.hr>>,
          calls |-> <<Ev("GetRecommendedRenderingMode", rendering_params)>>,
          value |-> NoValue]
    ELSE [fault |-> FALSE, hrs |-> <<e.hr>>,
          calls |-> <<Ev("GetRecommendedRenderingMode", rendering_params)>>,
          value |-> e.mode]

\* FontFace::get_recommended_rendering_mode
get_recommended_rendering_mode(self, em_size, pixels_per_dip, measure_mode, rendering_params, e) ==
    LET r == NativeGetRecommendedRenderingMode(em_size, pixels_per_dip, measure_mode,
                                               rendering_params,
                                               DWRITE_RENDERING_MODE_DEFAULT, e)
    IN  IF ~(r.hr # S_OK)
        THEN [fault |-> FALSE, hrs |-> <<r.hr>>,
              calls |-> <<Ev("GetRecommendedRenderingMode", rendering_params)>>,
              value |-> DWRITE_RENDERING_MODE_NATURAL_SYMMETRIC]
        ELSE [fault |-> FALSE, hrs |-> <<r.hr>>,
              calls |-> <<Ev("GetRecommendedRenderingMode", rendering_params)>>,
              value |-> r.render_mode]

\* Bug: the wrapper passes a null rendering-params handle.
get_recommended_rendering_mode_null_params(self, em_size, pixels_per_dip, measure_mode, e) ==
    get_recommended_rendering_mode(self, em_size, pixels_per_dip, measure_mode, NullPtr, e)

\* FontFace::get_recommended_rendering_mode_default_params
get_recommended_rendering_mode_default_params(self, em_size, pixels_per_dip, measure_mode, e) ==
    get_recommended_rendering_mode(self, em_size, pixels_per_dip, measure_mode,
                                   DefaultDWriteRenderParams, e)

RenderEnv == [hr : Statuses, mode : RenderingModes]

----------------------------------------------------------------------------
(* Inputs.  Each action draws its arguments and the native layer's answers   *)
(* from the set it is given: the full sets below for the specification of    *)
(* one group of methods, a sample of them when all methods run together.     *)

GlyphIndexInputs == [code_points : SeqsUpTo(CodePoints, MaxLen), hr : Statuses]

DesignInputs ==
    [glyph_indices : SeqsUpTo(GlyphIndices, MaxLen), is_sideways : BOOLEAN, hr : Statuses]

GdiInputs ==
    [params : GdiParams, glyph_indices : SeqsUpTo(GlyphIndices, MaxLen),
     is_sideways : BOOLEAN, hr : Statuses]

CreateInputs == [simulations : Simulations, e : CreateEnv]

TableInputs == [opentype_table_tag : Tags, e : TableEnv]

RenderInputs ==
    [em_size : EmSizes, pixels_per_dip : {1}, measure_mode : MeasuringModes,
     rendering_params : RenderParams, e : RenderEnv]

RenderDefaultInputs ==
    [em_size : EmSizes, pixels_per_dip : {1}, measure_mode : MeasuringModes, e : RenderEnv]

GlyphIndexSample ==
    {i \in GlyphIndexInputs : i.code_points \in {<<>>, <<65, 1114111>>}}

DesignSample ==
    {i \in DesignInputs : i.glyph_indices = <<1, 0>> /\ i.is_sideways}

GdiSample ==
    {i \in GdiInputs : i.glyph_indices = <<0, 1>> /\ ~i.is_sideways /\ i.params[4]}

FilesSample ==
    {e \in FilesEnv : e.n1 \in {0, MaxFiles} /\ e.n2 \in {0, MaxFiles - 1, MaxFiles}}

CreateSample ==
    {i \in CreateInputs : /\ i.simulations = 1
                          /\ i.e.n1 = MaxFiles
                          /\ i.e.n2 \in {0, MaxFiles}}

TableSample ==
    {i \in TableInputs : i.opentype_table_tag = 1 /\ Len(i.e.span) \in {0, MaxTableSize}
                         /\ \A k \in 1..Len(i.e.span) : i.e.span[k] = 255}

RenderSample ==
    {i \in RenderInputs : /\ i.em_size = 1 /\ i.measure_mode = 0 /\ i.rendering_params = 2
                          /\ i.e.mode \in {1, DWRITE_RENDERING_MODE_NATURAL_SYMMETRIC}}

RenderDefaultSample ==
    {i \in RenderDefaultInputs : /\ i.em_size = 1 /\ i.measure_mode = 0
                                 /\ i.e.mode \in {1, DWRITE_RENDERING_MODE_NATURAL_SYMMETRIC}}

----------------------------------------------------------------------------
(* Actions: one per public method *)

Init ==
    /\ \E f \in InitialFaces : handles = <<take(f)>>
    /\ unownedRefs = [f \in Files |-> 0]
    /\ ctxAcquired = 0
    /\ ctxReleased = 0
    /\ last = Call("take", 1, <<>>, <<>>, <<>>, <<Ev("GetMetrics", 0)>>, Ok, NoValue)

Outcome(fault) == IF fault THEN Fault ELSE Ok

Metrics ==
    \E h \in 1..Len(handles) :
        /\ last' = Call("metrics", h, <<>>, <<>>, <<>>, <<>>, Ok, metrics(handles[h]))
        /\ UNCHANGED <<handles, unownedRefs, ctxAcquired, ctxReleased>>

GetMetrics ==
    \E h \in 1..Len(handles) :
        /\ last' = Call("get_metrics", h, <<>>, <<>>, <<>>, <<Ev("GetMetrics", 0)>>, Ok,
                        get_metrics(handles[h]))
        /\ UNCHANGED <<handles, unownedRefs, ctxAcquired, ctxReleased>>

GetGlyphCount ==
    \E h \in 1..Len(handles) :
        /\ last' = Call("get_glyph_count", h, <<>>, <<>>, <<>>, <<Ev("GetGlyphCount", 0)>>,
                        Ok, get_glyph_count(handles[h]))
        /\ UNCHANGED <<handles, unownedRefs, ctxAcquired, ctxReleased>>

GetGlyphIndices(inputs) ==
    \E h \in 1..Len(handles), i \in inputs :
        LET r == get_glyph_indices(handles[h], i.code_points, i.hr)
        IN  /\ last' = Call("get_glyph_indices", h, i, [hr |-> i.hr], r,
                            <<Ev("GetGlyphIndices", Len(i.code_points))>>,
                            Outcome(r.fault), r.value)
            /\ UNCHANGED <<handles, unownedRefs, ctxAcquired, ctxReleased>>

GetDesignGlyphMetrics(inputs) ==
    \E h \in 1..Len(handles), i \in inputs :
        LET r == get_design_glyph_metrics(handles[h], i.glyph_indices, i.is_sideways, i.hr)
        IN  /\ last' = Call("get_design_glyph_metrics", h, i, [hr |-> i.hr], r,
                            <<Ev("GetDesignGlyphMetrics", Len(i.glyph_indices))>>,
                            Outcome(r.fault), r.value)
            /\ UNCHANGED <<handles, unownedRefs, ctxAcquired, ctxReleased>>

GetGdiCompatibleGlyphMetrics(inputs) ==
    \E h \in 1..Len(handles), i \in inputs :
        LET r == get_gdi_compatible_glyph_metrics(handles[h], i.params[1], i.params[2],
                                                  i.params[3], i.params[4],
                                                  i.glyph_indices, i.is_sideways, i.hr)
        IN  /\ last' = Call("get_gdi_compatible_glyph_metrics", h, i, [hr |-> i.hr], r,
                            <<Ev("GetGdiCompatibleGlyphMetrics", Len(i.glyph_indices))>>,
                            Outcome(r.fault), r.value)
            /\ UNCHANGED <<handles, unownedRefs, ctxAcquired, ctxReleased>>

GetFiles(inputs) ==
    \E h \in 1..Len(handles), e \in inputs :
        LET r == get_files(handles[h], e)
        IN  /\ last' = Call("get_files", h, <<>>, e, r, r.calls, Outcome(r.fault), r.value)
            /\ unownedRefs' = RefsAfter(unownedRefs, r.calls, r.files)
            /\ UNCHANGED <<handles, ctxAcquired, ctxReleased>>

CreateFontFaceWithSimulations(inputs) ==
    \E h \in 1..Len(handles), i \in inputs :
        LET r == create_font_face_with_simulations(handles[h], i.simulations, i.e)
        IN  /\ Len(handles) < MaxHandles
            /\ last' = Call("create_font_face_with_simulations", h, i, i.e, r,
                            r.calls, Outcome(r.fault), r.value)
            /\ handles' = IF r.fault THEN handles ELSE Append(handles, r.value)
            /\ unownedRefs' = RefsAfter(unownedRefs, r.calls, <<>>)
            /\ UNCHANGED <<ctxAcquired, ctxReleased>>

GetFontTable(inputs) ==
    \E h \in 1..Len(handles), i \in inputs :
        LET r == get_font_table(handles[h], i.opentype_table_tag, i.e)
        IN  /\ ctxAcquired < MaxTableCalls
            /\ last' = Call("get_font_table", h, i, i.e, r, r.calls,
                            Outcome(r.fault), r.value)
            /\ ctxAcquired' = ctxAcquired + r.acquired
            /\ ctxReleased' = ctxReleased + r.released
            /\ UNCHANGED <<handles, unownedRefs>>

GetRecommendedRenderingMode(inputs) ==
    \E h \in 1..Len(handles), i \in inputs :
        LET r == get_recommended_rendering_mode(handles[h], i.em_size, i.pixels_per_dip,
                                                i.measure_mode, i.rendering_params, i.e)
        IN
        /\ last' = Call("get_recommended_rendering_mode", h, i, i.e, r,
                        r.calls,
                        Outcome(r.fault), r.value)
        /\ UNCHANGED <<handles, unownedRefs, ctxAcquired, ctxReleased>>

GetRecommendedRenderingModeDefaultParams(inputs) ==
    \E h \in 1..Len(handles), i \in inputs :
        LET r == get_recommended_rendering_mode_default_params(
                     handles[h], i.em_size, i.pixels_per_dip, i.measure_mode, i.e)
        IN
        /\ last' = Call("get_recommended_rendering_mode_default_params", h, i, i.e, r,
                        r.calls,
                        Outcome(r.fault), r.value)
        /\ UNCHANGED <<handles, unownedRefs, ctxAcquired, ctxReleased>>

----------------------------------------------------------------------------
(* Specifications *)

\* All methods together, on sampled inputs.
Next ==
    \/ Metrics
    \/ GetMetrics
    \/ GetGlyphCount
    \/ GetGlyphIndices(GlyphIndexSample)
    \/ GetDesignGlyphMetrics(DesignSample)
    \/ GetGdiCompatibleGlyphMetrics(GdiSample)
    \/ GetFiles(FilesSample)
    \/ CreateFontFaceWithSimulations(CreateSample)
    \/ GetFontTable(TableSample)
    \/ GetRecommendedRenderingMode(RenderSample)
    \/ GetRecommendedRenderingModeDefaultParams(RenderDefaultSample)

Spec == Init /\ [][Next]_vars

\* The glyph queries on every batch up to MaxLen.
NextGlyph ==
    \/ GetGlyphIndices(GlyphIndexInputs)
    \/ GetDesignGlyphMetrics(DesignInputs)
    \/ GetGdiCompatibleGlyphMetrics(GdiInputs)

SpecGlyph == Init /\ [][NextGlyph]_vars

\* File enumeration and derived faces on every answer of the native layer.
NextFiles ==
    \/ GetFiles(FilesEnv)
    \/ CreateFontFaceWithSimulations(CreateInputs)

SpecFiles == Init /\ [][NextFiles]_vars

\* Font tables on every answer of the native layer.
NextTable == GetFontTable(TableInputs)

SpecTable == Init /\ [][NextTable]_vars

\* The rendering-mode queries on every answer of the native layer.
NextRender ==
    \/ GetRecommendedRenderingMode(RenderInputs)
    \/ GetRecommendedRenderingModeDefaultParams(RenderDefaultInputs)

SpecRender == Init /\ [][NextRender]_vars

----------------------------------------------------------------------------
(* Properties *)

IsOp(op) == last.op = op
Succeeded == last.outcome = Ok
Faulted == last.outcome = Fault /\ last.value = NoValue
Released(f) == Count(last.calls, Ev("Release", f))
AddRefed(f) == Count(last.calls, Ev("AddRef", f))
NoUnownedRefs == \A f \in Files : unownedRefs[f] = 0

\* C1: get_recommended_rendering_mode returns the fallback mode
\* (natural-symmetric) whenever the native call returns a non-success status,
\* and the mode the native call wrote whenever it returns S_OK.
C1_FallbackIffNativeFailure ==
    IsOp("get_recommended_rendering_mode") =>
        /\ last.env.hr # S_OK => last.value = DWRITE_RENDERING_MODE_NATURAL_SYMMETRIC
        /\ last.env.hr = S_OK => last.value = last.env.mode

\* C2: every get_font_table call whose TryGetFontTable succeeds calls
\* ReleaseFontTable exactly once, on the table-present and on the table-absent
\* path, so the releases so far equal the successful acquisitions so far.
C2_ReleaseOncePerAcquisition ==
    /\ ctxReleased = ctxAcquired
    /\ (IsOp("get_font_table") /\ last.env.hr = S_OK) =>
            Count(last.calls, Ev("ReleaseFontTable", 0)) = 1

\* C3: create_font_face_with_simulations releases every file reference it got
\* from enumeration exactly once, whether CreateFontFace succeeds or fails (then
\* before the fault); none is leaked, none is released twice.
C3_EnumeratedFilesReleasedOnce ==
    /\ NoUnownedRefs
    /\ IsOp("create_font_face_with_simulations") =>
            \A f \in Files : Released(f) = AddRefed(f) /\ Released(f) <= 1

C3_Witness ==
    /\ IsOp("create_font_face_with_simulations")
    /\ last.detail.hrs = <<S_OK, S_OK, E_FAIL>>
    /\ last.outcome = Fault
    /\ \A f \in Files : Released(f) = 1

\* C4: file enumeration faults whenever the count reported by the fill call
\* differs from the count reported by the count call.
C4_CountMismatchFaults ==
    (/\ IsOp("get_files") \/ IsOp("create_font_face_with_simulations")
     /\ last.env.hr1 = S_OK
     /\ last.env.hr2 = S_OK
     /\ last.env.n2 # last.env.n1)
        => last.outcome = Fault

\* C5: metrics() returns the snapshot taken in take(): for every handle it is
\* what get_metrics() returned at construction, whatever ran in between, and no
\* method changes the snapshot or the native reference of an existing handle.
C5_MetricsIsTheSnapshot ==
    /\ [](/\ \A h \in 1..Len(handles) : metrics(handles[h]) = get_metrics(handles[h])
          /\ IsOp("metrics") => last.value = get_metrics(handles[last.self]))
    /\ [][\A h \in 1..Len(handles) : Len(handles') >= h /\ handles'[h] = handles[h]]_vars

C5_Witness ==
    /\ IsOp("metrics")
    /\ last.self = 2
    /\ last.value # metrics(handles[1])
    /\ last.value.ascent # 0

\* C6: a glyph query that succeeds returns exactly as many elements as it was
\* given (none for none), the i-th being what the native layer produces for the
\* i-th input.
C6_GlyphOutputsFollowInputs ==
    /\ (IsOp("get_glyph_indices") /\ last.env.hr = S_OK) =>
            /\ Succeeded
            /\ Len(last.value) = Len(last.args.code_points)
            /\ \A k \in 1..Len(last.args.code_points) :
                    last.value[k] = NativeGlyphIndexOf(last.args.code_points[k])
    /\ (IsOp("get_design_glyph_metrics") /\ last.env.hr = S_OK) =>
            /\ Succeeded
            /\ Len(last.value) = Len(last.args.glyph_indices)
            /\ \A k \in 1..Len(last.args.glyph_indices) :
                    last.value[k] = NativeDesignGlyphMetricsOf(
                                        last.args.glyph_indices[k],
                                        AsBOOL(last.args.is_sideways))
    /\ (IsOp("get_gdi_compatible_glyph_metrics") /\ last.env.hr = S_OK) =>
            /\ Succeeded
            /\ Len(last.value) = Len(last.args.glyph_indices)
            /\ \A k \in 1..Len(last.args.glyph_indices) :
                    last.value[k] = NativeGdiGlyphMetricsOf(
                                        last.args.params[1], last.args.params[2],
                                        last.args.params[3], AsBOOL(last.args.params[4]),
                                        last.args.glyph_indices[k],
                                        AsBOOL(last.args.is_sideways))

C6_Witness ==
    /\ IsOp("get_glyph_indices")
    /\ Succeeded
    /\ last.args.code_points = <<1114111, 65>>
    /\ last.value = <<0, 36>>

\* C7: get_font_table returns None exactly when TryGetFontTable succeeds and
\* reports no table; when it succeeds and reports a table, it returns bytes of
\* the reported size that equal the reported span byte for byte.
C7_TableBytesOrNone ==
    IsOp("get_font_table") =>
        /\ last.value = None <=> (last.env.hr = S_OK /\ last.env.exists = FALSE_BOOL)
        /\ (last.env.hr = S_OK /\ last.env.exists # FALSE_BOOL) =>
                /\ Succeeded
                /\ last.value[1] = "Some"
                /\ Len(last.value[2]) = Len(last.env.span)
                /\ \A k \in 1..Len(last.env.span) : last.value[2][k] = last.env.span[k]

C7_Witness ==
    /\ IsOp("get_font_table")
    /\ last.value = Some(<<255, 1>>)

\* C8: get_files gives each reference the fill call returned to exactly one
\* FontFile of the returned list and releases none; the list is as long as the
\* reported count, and a count of zero gives the empty list without a fault.
C8_FilesOwnedByOneWrapper ==
    /\ NoUnownedRefs
    /\ (IsOp("get_files") /\ Succeeded) =>
            /\ Len(last.value) = last.env.n1
            /\ \A f \in Files :
                    /\ Count(last.value, FontFile_take(already_addrefed(f))) = AddRefed(f)
                    /\ Released(f) = 0
    /\ (/\ IsOp("get_files")
        /\ last.env.hr1 = S_OK /\ last.env.n1 = 0
        /\ last.env.hr2 = S_OK /\ last.env.n2 = 0) =>
            Succeeded /\ last.value = <<>>

C8_Witness ==
    /\ IsOp("get_files")
    /\ Succeeded
    /\ Len(last.value) = 2
    /\ AddRefed(1) = 1 /\ AddRefed(2) = 1

\* C9: the glyph queries, file enumeration (either GetFiles call) and
\* create_font_face_with_simulations fault and return nothing whenever a native
\* call they make returns a status other than S_OK.
C9_NativeFailureFaults ==
    (/\ last.op \in {"get_glyph_indices", "get_design_glyph_metrics",
                     "get_gdi_compatible_glyph_metrics", "get_files",
                     "create_font_face_with_simulations"}
     /\ \E k \in 1..Len(last.detail.hrs) : last.detail.hrs[k] # S_OK)
        => Faulted

C9_Witness ==
    /\ IsOp("get_design_glyph_metrics")
    /\ last.detail.hrs = <<E_FAIL>>
    /\ Faulted

\* C10: both rendering-mode queries return a rendering mode for every status
\* of the native call; none makes them fault.
C10_RenderingModeNeverFaults ==
    (IsOp("get_recommended_rendering_mode")
     \/ IsOp("get_recommended_rendering_mode_default_params")) =>
        /\ Succeeded
        /\ last.value \in RenderingModes

C10_Witness ==
    /\ IsOp("get_recommended_rendering_mode_default_params")
    /\ last.env.hr = E_FAIL
    /\ Succeeded


\* C11: for a code point the native layer maps to no glyph, get_glyph_indices
\* returns the missing-glyph index 0 at that position and the native glyph
\* index at the other positions, and does not fault.
C11_MissingGlyphIsZeroNotFault ==
    (/\ IsOp("get_glyph_indices")
     /\ last.env.hr = S_OK
     /\ \E k \in 1..Len(last.args.code_points) :
            NativeGlyphIndexOf(last.args.code_points[k]) = 0)
        => /\ Succeeded
           /\ Len(last.value) = Len(last.args.code_points)
           /\ \A k \in 1..Len(last.args.code_points) :
                  IF NativeGlyphIndexOf(last.args.code_points[k]) = 0
                  THEN last.value[k] = 0
                  ELSE /\ last.value[k] # 0
                       /\ last.value[k] = NativeGlyphIndexOf(last.args.code_points[k])

C11_Witness ==
    /\ IsOp("get_glyph_indices")
    /\ last.args.code_points = <<65, 1114111>>
    /\ Succeeded
    /\ last.value = <<36, 0>>


\* The native calls the last method made, in order: AddRef happens inside the
\* native layer and ReadSpan is a memory read, so neither is one.
NativeCalls == SelectSeq(last.calls, LAMBDA ev : ev[1] \notin {"AddRef", "ReadSpan"})
NativeCallNames == [k \in 1..Len(NativeCalls) |-> NativeCalls[k][1]]
Repeat(x, n) == [k \in 1..n |-> x]
NonNull(ptrs) == Cardinality({k \in 1..Len(ptrs) : ptrs[k] # NullPtr})

\* C12 as stated: every public operation makes exactly one native call, except
\* get_files, which makes exactly two.
C12_OneNativeCallPerOperation ==
    Len(NativeCalls) = IF IsOp("get_files") THEN 2 ELSE 1

\* C12 amended: the operations with a single native call make exactly that
\* call; metrics() makes none; get_files makes the count call and, unless it
\* failed, the fill call; get_font_table makes TryGetFontTable and at most one
\* ReleaseFontTable (one when the table is present); and
\* create_font_face_with_simulations makes the two GetFiles calls, GetType,
\* GetIndex, CreateFontFace, one Release per enumerated file and, on success,
\* GetMetrics for the new handle.
C12_NativeCallsPerOperation ==
    /\ IsOp("metrics") => NativeCallNames = <<>>
    /\ (IsOp("take") \/ IsOp("get_metrics")) => NativeCallNames = <<"GetMetrics">>
    /\ IsOp("get_glyph_count") => NativeCallNames = <<"GetGlyphCount">>
    /\ IsOp("get_glyph_indices") => NativeCallNames = <<"GetGlyphIndices">>
    /\ IsOp("get_design_glyph_metrics") => NativeCallNames = <<"GetDesignGlyphMetrics">>
    /\ IsOp("get_gdi_compatible_glyph_metrics") =>
            NativeCallNames = <<"GetGdiCompatibleGlyphMetrics">>
    /\ (IsOp("get_recommended_rendering_mode")
        \/ IsOp("get_recommended_rendering_mode_default_params")) =>
            NativeCallNames = <<"GetRecommendedRenderingMode">>
    /\ IsOp("get_files") =>
            NativeCallNames = IF last.detail.hrs[1] # S_OK
                              THEN <<"GetFiles">>
                              ELSE <<"GetFiles", "GetFiles">>
    /\ IsOp("get_font_table") =>
            /\ NativeCallNames \in {<<"TryGetFontTable">>,
                                    <<"TryGetFontTable", "ReleaseFontTable">>}
            /\ (last.env.hr = S_OK /\ last.env.exists # FALSE_BOOL) =>
                    NativeCallNames = <<"TryGetFontTable", "ReleaseFontTable">>
    /\ IsOp("create_font_face_with_simulations") =>
            NativeCallNames =
                IF last.detail.hrs[1] # S_OK THEN <<"GetFiles">>
                ELSE IF last.detail.hrs[2] # S_OK THEN <<"GetFiles", "GetFiles">>
                ELSE <<"GetFiles", "GetFiles", "GetType", "GetIndex", "CreateFontFace">>
                     \o Repeat("Release", NonNull(last.detail.file_ptrs))
                     \o (IF Succeeded THEN <<"GetMetrics">> ELSE <<>>)

C12_Witness ==
    /\ IsOp("create_font_face_with_simulations")
    /\ Succeeded
    /\ NativeCallNames = <<"GetFiles", "GetFiles", "GetType", "GetIndex", "CreateFontFace">>
                         \o Repeat("Release", MaxFiles) \o <<"GetMetrics">>


\* The positions in the last method's call sequence of the calls named name.
At(name) == {k \in 1..Len(last.calls) : last.calls[k][1] = name}
CreateReachedFactory == IsOp("create_font_face_with_simulations") /\ last.detail.enumerated

\* C13: every handle wraps a non-null native face; when CreateFontFace fails,
\* create_font_face_with_simulations faults without constructing a handle (no
\* snapshot is queried); when it returns a handle, the factory succeeded and
\* the handle was constructed after the factory call.
C13_HandlesWrapNonNullFaces ==
    /\ \A h \in 1..Len(handles) : ~handles[h].native.null
    /\ (CreateReachedFactory /\ last.detail.hrs[3] # S_OK) =>
            /\ Faulted
            /\ At("GetMetrics") = {}
    /\ (IsOp("create_font_face_with_simulations") /\ Succeeded) =>
            /\ last.detail.hrs[3] = S_OK
            /\ ~last.value.native.null
            /\ Cardinality(At("GetMetrics")) = 1
            /\ \A c \in At("CreateFontFace"), g \in At("GetMetrics") : c < g

C13_Witness ==
    /\ CreateReachedFactory
    /\ last.env.hrCreate = E_FAIL
    /\ Faulted
    /\ At("GetMetrics") = {}
    /\ Len(handles) = 1

\* What a successful create_font_face_with_simulations hands to the factory
\* and what it returns.
DerivedHandleFromFactory ==
    (IsOp("create_font_face_with_simulations") /\ Succeeded) =>
        LET src == handles[last.self]
            new == last.value
            fa == last.detail.factoryArgs
        IN  /\ last.self < Len(handles)
            /\ new = handles[Len(handles)]
            /\ fa.face_type = NativeGetType(src.native)
            /\ fa.face_index = NativeGetIndex(src.native)
            /\ fa.number_of_files = last.env.n1
            /\ fa.files = [k \in 1..last.env.n1 |-> k]
            /\ fa.simulations = last.args.simulations
            /\ new.native = Face(fa.face_type, fa.face_index, fa.simulations)
            /\ metrics(new) = get_metrics(new)
            /\ metrics(src) = get_metrics(src)

\* A call of create_font_face_with_simulations changes no existing handle.
SourceHandlesKept ==
    last'.op = "create_font_face_with_simulations" =>
        \A h \in 1..Len(handles) : Len(handles') >= h /\ handles'[h] = handles[h]

\* C14: the handle create_font_face_with_simulations returns wraps the face
\* the factory made from the source's type, the source's face index, the
\* enumerated files in enumeration order and the caller's simulation flags;
\* its snapshot is queried from that new face, so its metrics() equals its
\* own get_metrics(); the source handle keeps its own snapshot (no call of
\* the operation changes an existing handle).
C14_DerivedHandleOwnSnapshot ==
    []DerivedHandleFromFactory /\ [][SourceHandlesKept]_vars

C14_Witness ==
    /\ IsOp("create_font_face_with_simulations")
    /\ Succeeded
    /\ last.args.simulations = 1
    /\ last.detail.factoryArgs.files = [k \in 1..MaxFiles |-> k]
    /\ metrics(last.value) # metrics(handles[last.self])
    /\ metrics(last.value) = get_metrics(last.value)


\* C15: get_recommended_rendering_mode_default_params(em_size, pixels_per_dip,
\* measure_mode) makes the native call and returns the value that
\* get_recommended_rendering_mode makes and returns with the same three
\* arguments and the process-wide default rendering-params handle as fourth,
\* whatever status and mode the native query answers.
C15_DefaultParamsIsGeneralFormWithDefault ==
    IsOp("get_recommended_rendering_mode_default_params") =>
        LET general == get_recommended_rendering_mode(
                           handles[last.self], last.args.em_size, last.args.pixels_per_dip,
                           last.args.measure_mode, DefaultDWriteRenderParams, last.env)
        IN  /\ last.value = general.value
            /\ last.outcome = Outcome(general.fault)
            /\ last.calls = general.calls
            /\ last.calls = <<Ev("GetRecommendedRenderingMode", DefaultDWriteRenderParams)>>

C15_Witness ==
    /\ IsOp("get_recommended_rendering_mode_default_params")
    /\ last.env.hr = S_OK
    /\ last.env.mode = 3
    /\ last.calls = <<Ev("GetRecommendedRenderingMode", DefaultDWriteRenderParams)>>
    /\ last.value = DWRITE_RENDERING_MODE_NATURAL_SYMMETRIC


\* C16: in create_font_face_with_simulations no enumerated file reference is
\* released before CreateFontFace has returned; every release comes after the
\* factory call and before the status check, so the releases happen whether
\* the factory succeeded or failed and before the new handle is constructed.
C16_ReleasesFollowFactoryCall ==
    CreateReachedFactory =>
        /\ Cardinality(At("CreateFontFace")) = 1
        /\ \A rel \in At("Release"), c \in At("CreateFontFace") : c < rel
        /\ \A rel \in At("Release"), g \in At("GetMetrics") : rel < g
        /\ Cardinality(At("Release")) = NonNull(last.detail.file_ptrs)

C16_Witness ==
    /\ CreateReachedFactory
    /\ Succeeded
    /\ Cardinality(At("Release")) = MaxFiles
    /\ \A rel \in At("Release"), c \in At("CreateFontFace") : c < rel

\* C17: on the table-present path of get_font_table the span is read into the
\* owned buffer before ReleaseFontTable is called, the span is not read after
\* the release, and the returned value is that copy.
C17_CopyBeforeRelease ==
    (IsOp("get_font_table") /\ last.env.hr = S_OK /\ last.env.exists # FALSE_BOOL) =>
        /\ Cardinality(At("ReadSpan")) = 1
        /\ Cardinality(At("ReleaseFontTable")) = 1
        /\ \A rd \in At("ReadSpan"), rel \in At("ReleaseFontTable") : rd < rel
        /\ \A rd \in At("ReadSpan") : last.calls[rd] = Ev("ReadSpan", Len(last.env.span))
        /\ last.value = Some(last.env.span)

C17_Witness ==
    /\ IsOp("get_font_table")
    /\ last.env.hr = S_OK
    /\ last.env.exists # FALSE_BOOL
    /\ Len(last.env.span) = MaxTableSize
    /\ last.value = Some(last.env.span)
    /\ last.calls = <<Ev("TryGetFontTable", last.args.opentype_table_tag),
                      Ev("ReadSpan", MaxTableSize), Ev("ReleaseFontTable", 0)>>

====
